---- MODULE Spec2Model ----
(***************************************************************************)
(* State-machine model of the chat front ends of secure-ai-chat:           *)
(*                                                                         *)
(*   - the React component AIChat (components/chat/ChatInterface.tsx):     *)
(*     sendMessage, handleSingleResponse, handleStreamingResponse and the  *)
(*     handlers it installs on the event source;                           *)
(*   - the chat page script (unnamed/part_006): the template interview     *)
(*     (selectTemplate .. clearSelectedTemplate), the template-aware       *)
(*     sendMessage, sendNormalMessage/callRealAI and sendTemplateMessage;  *)
(*   - the demo chat page (pages/chat.js): Chat.sendMessage;               *)
(*   - ChatInterface, the parent of AIChat, with its session list;         *)
(*   - the session chat page (pages/chat.js, Chat with a sessionId);       *)
(*   - ApiClient (utils/api.ts): the response interceptor;                 *)
(*   - the useChat hook (unnamed/part_002): loadChat and sendMessage.      *)
(*                                                                         *)
(* Text is a sequence of one-character strings, so that trim() and the     *)
(* prefix relation are computed rather than assumed.                       *)
(***************************************************************************)
EXTENDS Integers, Sequences, FiniteSets, TLC

\* ------------------------------------------------------------------ bounds

\* user turns accepted by AIChat.sendMessage in one run
MaxTurns == 2
\* longest cumulative text a stream carries
MaxLen == 2

\* ------------------------------------------------------------------- text

Null == "null"

\* String.prototype.trim on a sequence of characters: blanks at both ends go
RECURSIVE TrimStart(_)
TrimStart(s) ==
    IF s = <<>> THEN <<>>
    ELSE IF Head(s) = " " THEN TrimStart(Tail(s)) ELSE s

RECURSIVE TrimEnd(_)
TrimEnd(s) ==
    IF s = <<>> THEN <<>>
    ELSE IF s[Len(s)] = " " THEN TrimEnd(SubSeq(s, 1, Len(s) - 1)) ELSE s

Trim(s) == TrimEnd(TrimStart(s))

IsPrefix(s, t) == Len(s) <= Len(t) /\ SubSeq(t, 1, Len(s)) = s

\* what the user may have typed into the textarea when pressing send
Inputs == {<<" ">>, <<" ", "a", " ">>}

\* the answer the provider gives: MaxLen characters, no two neighbours alike
Answer == [n \in 1..MaxLen |-> IF n % 2 = 1 THEN "a" ELSE "b"]

\* ================================================================= state

\* the state of the AIChat component
VARIABLES
    messages,   \* useState<Message[]>: the transcript of the component
    isLoading,  \* useState(false)
    error,      \* useState<string | null>
    settings,   \* useState({... stream: true}): only the stream flag matters
    calls,      \* requests sendMessage is awaiting: [kind, id]
    sources,    \* event sources by assistant message id: [id, open, phase, text, deltas, malformed]
    nextId      \* stands for Date.now(): fresh in every event-loop turn

aVars == <<messages, isLoading, error, settings, calls, sources, nextId>>

\* the state of the chat page script (unnamed/part_006)
VARIABLES
    container,             \* the children of #messagesContainer, in order
    pageIsLoading,         \* let isLoading
    selectedTemplate,      \* let selectedTemplate: a template id, 0 for null
    templateChatMode,      \* let templateChatMode
    currentVariableIndex,  \* let currentVariableIndex (0-based, as in the code)
    collectedVariables,    \* let collectedVariables: <<name, value>> in insertion order
    timers,                \* pending setTimeout(askNextVariable, 1000), oldest first
    requests,              \* fetches awaiting their response, oldest first
    submits,               \* calls of sendMessage so far; the raw text of the last
                           \* one and the isLoading it found
    ops,                   \* template/chat operations so far
    uncaught               \* TypeErrors that escaped every handler

sVars == <<container, pageIsLoading, selectedTemplate, templateChatMode,
           currentVariableIndex, collectedVariables, timers, requests,
           submits, ops, uncaught>>

\* the state of the demo chat page (pages/chat.js, Chat)
VARIABLES
    demoMessages,   \* useState([...]): messages
    demoIsLoading,  \* useState(false): isLoading
    demoPending     \* sendMessage calls awaiting their delay and fetch

dVars == <<demoMessages, demoIsLoading, demoPending>>

\* the state of ApiClient (utils/api.ts) during calls of aiApi.createCompletion
VARIABLES
    cookies,       \* js-cookie: [access |-> "none" | "login" | "refreshed", refresh |-> BOOLEAN]
    inflight,      \* requests of the current call, innermost last: [kind, retry];
                   \* the last one awaits its response, the ones before it
                   \* await the refresh their interceptor posted
    sent,          \* completion requests put on the wire for the current call
    refreshes,     \* refresh requests put on the wire for the current call
    apiToasts,     \* toast.error calls of the interceptor for the current call
    apiCalls,      \* calls of createCompletion so far
    lastResponse,  \* the response handled last: [kind, status]
    result,        \* how the current call settled: "none", "pending", "resolved", "rejected"
    redirected     \* window.location.href = '/login' was executed

pVars == <<cookies, inflight, sent, refreshes, apiToasts, apiCalls, lastResponse,
           result, redirected>>

\* the state of the session chat page (pages/chat.js, Chat with a sessionId)
VARIABLES
    sessMessages,    \* useState<ChatMessage[]>([]): messages
    sessIsLoading,   \* useState(false): isLoading
    sessPending,     \* the POST sendMessage awaits, if any: <<[id, loading]>> with the
                     \* id of the user message it appended and whether the
                     \* history was still loading then
    historyPending,  \* loadChatData's GET is awaiting its response
    sessToasts,      \* toast.error calls of sendMessage
    sessNextId       \* stands for Date.now() and result.message_id

gVars == <<sessMessages, sessIsLoading, sessPending, historyPending, sessToasts,
           sessNextId>>

\* the state of ChatInterface, the parent of AIChat (ChatInterface.tsx)
VARIABLES
    sessions,        \* useState<ChatSession[]>([]): [id, messages], newest first
    currentSession,  \* useState<ChatSession | null>: a session object, NoSession for null
    turns,           \* turns of AIChat instances awaiting their response:
                     \* [captured, live, id, stream, open] with the currentSession
                     \* captured by the callbacks of the render that sent the
                     \* turn, whether that instance is still mounted, and for a
                     \* streamed turn whether its event source is open
    created,         \* sessions created so far
    turnId           \* stands for Date.now() in message ids

cVars == <<sessions, currentSession, turns, created, turnId>>

\* the state of the useChat hook (unnamed/part_002) and of the chat it talks to
VARIABLES
    hookMessages,   \* useState<ChatMessage[]>([]): [role, n, content]
    hookSending,    \* useState(false)
    hookLoading,    \* useState(false)
    hookError,      \* useState<string | null>(null)
    hookChatId,     \* useState<number | null>(null): 0 for null
    hookChats,      \* useState<ChatListItem[]>([]): whether a list was fetched
    hookCalls,      \* sendMessage calls awaiting a response: [n, content,
                    \* captured, stage] with the messages of the render whose
                    \* callback was called, and stage "post" (chatApi.sendMessage)
                    \* or "chats" (fetchChats)
    hookLoads,      \* loadChat calls: [started, pending]
    hookResults,    \* outcome of each sendMessage call's POST, by call number
    hookToasts,     \* toast.error calls
    serverMessages  \* the messages the service holds for the chat

hVars == <<hookMessages, hookSending, hookLoading, hookError, hookChatId,
           hookChats, hookCalls, hookLoads, hookResults, hookToasts,
           serverMessages>>

\* what an action of one component leaves alone
othersA == <<sVars, dVars, pVars, gVars, cVars, hVars>>
othersS == <<aVars, dVars, pVars, gVars, cVars, hVars>>
othersD == <<aVars, sVars, pVars, gVars, cVars, hVars>>
othersP == <<aVars, sVars, dVars, gVars, cVars, hVars>>
othersG == <<aVars, sVars, dVars, pVars, cVars, hVars>>
othersC == <<aVars, sVars, dVars, pVars, gVars, hVars>>
othersH == <<aVars, sVars, dVars, pVars, gVars, cVars>>

\* ================================================================ AIChat

\* prev.map(msg => msg.id === id ? new : msg), new given per position
MapMessage(prev, id, new) ==
    [i \in DOMAIN prev |-> IF prev[i].id = id THEN new[i] ELSE prev[i]]

\* the settings panel's "stream" checkbox
ToggleStream ==
    /\ settings' = [settings EXCEPT !.stream = ~settings.stream]
    /\ UNCHANGED <<messages, isLoading, error, calls, sources, nextId>>
    /\ UNCHANGED othersA

\* sendMessage up to its first await; with settings.stream this includes
\* handleStreamingResponse up to `await aiApi.createStreamingCompletion`
SendMessage(inputText) ==
    /\ nextId < 2 * MaxTurns
    /\ ~(Trim(inputText) = <<>> \/ isLoading)
    /\ LET userMessage == [id |-> nextId, role |-> "user",
                           content |-> Trim(inputText),
                           isStreaming |-> FALSE, tokens_used |-> 0]
           assistantMessage == [id |-> nextId + 1, role |-> "assistant",
                                content |-> <<>>,
                                isStreaming |-> TRUE, tokens_used |-> 0]
       IN  /\ messages' = IF settings.stream
                          THEN messages \o <<userMessage, assistantMessage>>
                          ELSE Append(messages, userMessage)
           /\ calls' = Append(calls, [kind |-> IF settings.stream THEN "stream"
                                               ELSE "single",
                                      id |-> nextId + 1])
    /\ isLoading' = TRUE
    /\ error' = Null
    /\ nextId' = nextId + 2
    /\ UNCHANGED <<settings, sources>>
    /\ UNCHANGED othersA

\* handleSingleResponse after createCompletion resolved, then the finally
SingleResolved(content, tokens) ==
    /\ calls # <<>> /\ Head(calls).kind = "single"
    /\ messages' = Append(messages,
           [id |-> Head(calls).id, role |-> "assistant", content |-> content,
            isStreaming |-> FALSE, tokens_used |-> tokens])
    /\ calls' = Tail(calls)
    /\ isLoading' = FALSE
    /\ UNCHANGED <<error, settings, sources, nextId>>
    /\ UNCHANGED othersA

\* either request rejected: sendMessage's catch (setError and toast.error with
\* the same text) and finally
RequestRejected ==
    /\ calls # <<>>
    /\ calls' = Tail(calls)
    /\ error' = "send failed"
    /\ isLoading' = FALSE
    /\ UNCHANGED <<messages, settings, sources, nextId>>
    /\ UNCHANGED othersA

\* createStreamingCompletion resolved: the handlers are installed on the event
\* source, handleStreamingResponse returns, and sendMessage's finally runs
StreamOpened ==
    /\ calls # <<>> /\ Head(calls).kind = "stream"
    /\ sources' = Append(sources, [id |-> Head(calls).id, open |-> TRUE,
                                   phase |-> "deltas", text |-> <<>>, deltas |-> 0,
                                   malformed |-> FALSE])
    /\ calls' = Tail(calls)
    /\ isLoading' = FALSE
    /\ UNCHANGED <<messages, error, settings, nextId>>
    /\ UNCHANGED othersA

\* ---- the provider's side of POST /api/v1/ai/chat/stream (spec 4.3 and 6) ----
\* zero or more cumulative "content" events, then exactly one terminal event
\* ("completed" or "error"), then the [DONE] sentinel

\* the server may still send a content event carrying one more character
ServerMayExtend(src) == src.phase = "deltas" /\ Len(src.text) < Len(Answer)

\* full_content of the next content event: the cumulative text so far
ServerNextContent(src) == SubSeq(Answer, 1, Len(src.text) + 1)

\* data.content of the completed event: the last cumulative text when there was
\* one, the whole answer otherwise
ServerFinalContent(src) == IF src.deltas > 0 THEN src.text ELSE Answer

\* the [DONE] sentinel follows the terminal event
ServerMayFinish(src) == src.phase \in {"completed", "error"}

\* ---- eventSource.onmessage / onerror, as functions of the previous messages ----

\* the flip to final done on the closure's initial assistantMessage instead of
\* on the message in the list
MarkNotStreamingFromClosure(prev, id) ==
    MapMessage(prev, id, [i \in DOMAIN prev |->
        [prev[i] EXCEPT !.isStreaming = FALSE, !.content = <<>>, !.tokens_used = 0]])

\* event.data === '[DONE]'
MarkNotStreaming(prev, id) ==
    MapMessage(prev, id, [i \in DOMAIN prev |->
        [prev[i] EXCEPT !.isStreaming = FALSE]])

\* full_content taken for an increment and appended to the content so far
SetContentAppending(prev, id, full_content) ==
    MapMessage(prev, id, [i \in DOMAIN prev |->
        [prev[i] EXCEPT !.content = @ \o full_content]])

\* data.type === 'content'
SetContent(prev, id, full_content) ==
    MapMessage(prev, id, [i \in DOMAIN prev |->
        [prev[i] EXCEPT !.content = full_content]])

\* data.type === 'completed': the closure's assistantMessage, updated, replaces
\* the message
SetCompleted(prev, id, content, tokens) ==
    MapMessage(prev, id, [i \in DOMAIN prev |->
        [id |-> id, role |-> "assistant", content |-> content,
         isStreaming |-> FALSE, tokens_used |-> tokens]])

\* the error state left by a 'error' event or an unparsable chunk: the throw
\* and the JSON.parse failure are both caught and only logged to the console
AfterStreamFailure(err) == err

\* the error state left by eventSource.onerror
AfterTransportError(err) == "stream error"

IsOpen(i) == i \in DOMAIN sources /\ sources[i].open

OnDone(i) ==
    /\ IsOpen(i) /\ ServerMayFinish(sources[i])
    /\ sources' = [sources EXCEPT ![i].open = FALSE, ![i].phase = "done"]
    /\ messages' = MarkNotStreaming(messages, sources[i].id)
    /\ UNCHANGED <<isLoading, error, settings, calls, nextId>>
    /\ UNCHANGED othersA

OnContent(i) ==
    /\ IsOpen(i) /\ ServerMayExtend(sources[i])
    /\ LET full_content == ServerNextContent(sources[i])
       IN  /\ sources' = [sources EXCEPT ![i].text = full_content,
                                         ![i].deltas = @ + 1]
           /\ messages' = SetContent(messages, sources[i].id, full_content)
    /\ UNCHANGED <<isLoading, error, settings, calls, nextId>>
    /\ UNCHANGED othersA

OnCompleted(i, tokens) ==
    /\ IsOpen(i) /\ sources[i].phase = "deltas"
    /\ LET content == ServerFinalContent(sources[i])
       IN  /\ sources' = [sources EXCEPT ![i].phase = "completed",
                                         ![i].text = content]
           /\ messages' = SetCompleted(messages, sources[i].id, content, tokens)
    /\ UNCHANGED <<isLoading, error, settings, calls, nextId>>
    /\ UNCHANGED othersA

OnErrorEvent(i) ==
    /\ IsOpen(i) /\ sources[i].phase = "deltas"
    /\ sources' = [sources EXCEPT ![i].phase = "error"]
    /\ error' = AfterStreamFailure(error)
    /\ UNCHANGED <<messages, isLoading, settings, calls, nextId>>
    /\ UNCHANGED othersA

\* a chunk JSON.parse rejects
OnMalformed(i) ==
    /\ IsOpen(i)
    /\ sources' = [sources EXCEPT ![i].malformed = TRUE]
    /\ error' = AfterStreamFailure(error)
    /\ UNCHANGED <<messages, isLoading, settings, calls, nextId>>
    /\ UNCHANGED othersA

\* eventSource.onerror: the transport failed
OnError(i) ==
    /\ IsOpen(i)
    /\ sources' = [sources EXCEPT ![i].open = FALSE]
    /\ error' = AfterTransportError(error)
    /\ messages' = MarkNotStreaming(messages, sources[i].id)
    /\ UNCHANGED <<isLoading, settings, calls, nextId>>
    /\ UNCHANGED othersA

AIChatNext ==
    \/ ToggleStream
    \/ \E inputText \in Inputs : SendMessage(inputText)
    \/ SingleResolved(Answer, 1)
    \/ RequestRejected
    \/ StreamOpened
    \/ \E i \in 1..MaxTurns :
          \/ OnDone(i)
          \/ OnContent(i)
          \/ OnCompleted(i, 1)
          \/ OnErrorEvent(i)
          \/ OnMalformed(i)
          \/ OnError(i)


\* ====================================================== chat page script

\* presses of send (Enter or the button) in one run, accepted or not
MaxPresses == 3
\* template selections, template clears and chat clears in one run
MaxOps == 2

\* availableTemplates as loaded from GET /api/templates, which the script takes
\* as they come: one template with two variables (a required free-text one, an
\* optional select one with a default), one template without variables, and
\* one without variables whose system prompt names a placeholder all the same.
\* placeholders are the {name}s of system_prompt.
availableTemplates ==
    <<[id |-> 1, name |-> "mail", placeholders |-> {"recipient", "tone"},
       variables |-> <<[name |-> "recipient", required |-> TRUE,
                        type |-> "text", default |-> Null, options |-> {}],
                       [name |-> "tone", required |-> FALSE,
                        type |-> "select", default |-> "polite",
                        options |-> {<<"a">>, <<"c">>}]>>],
      [id |-> 2, name |-> "summary", placeholders |-> {}, variables |-> <<>>],
      [id |-> 3, name |-> "report", placeholders |-> {"topic"},
       variables |-> <<>>]>>

\* what the user may have typed into #messageInput when answering a question:
\* blank, one of the options of the select variable, something that is no option
AnswerInputs == Inputs \cup {<<"b">>}

TemplateIds == {availableTemplates[i].id : i \in DOMAIN availableTemplates}

\* availableTemplates.find(t => t.id === templateId)
Template(templateId) ==
    CHOOSE t \in {availableTemplates[i] : i \in DOMAIN availableTemplates} :
        t.id = templateId

\* what fetch and response.json() can come to: a 2xx with content, a 2xx whose
\* JSON body has no content, a 2xx whose body is not JSON, 429, another non-2xx
\* status, and a rejected fetch
Outcomes == {"ok", "ok_nocontent", "ok_badjson", "429", "500", "network"}

\* the content of a genuine provider answer
ProviderContent == <<"b">>

\* result.content of a JSON body without that field
Undefined == <<"undefined">>

\* one child of the container: addMessage(content, type, isDemo, apiInfo).
\* kind and the fields after it stand for the content string and apiInfo.
Msg(type, kind, isDemo, text, tmpl, var, status) ==
    [type |-> type, kind |-> kind, isDemo |-> isDemo, text |-> text,
     tmpl |-> tmpl, var |-> var, status |-> status]

\* setLoading that updates the button and the input but not the flag
SetLoadingDomOnly(loading) == FALSE

\* setLoading(loading): the value isLoading takes
SetLoading(loading) == loading

\* collectedVariables[name] = value: a new key goes last, a known key keeps its place
Put(collected, name, value) ==
    IF \E i \in DOMAIN collected : collected[i][1] = name
    THEN [i \in DOMAIN collected |->
             IF collected[i][1] = name THEN <<name, value>> ELSE collected[i]]
    ELSE Append(collected, <<name, value>>)

ClearedMsg == Msg("ai", "cleared", FALSE, <<>>, 0, 0, 0)

\* selectTemplate(templateId), with startTemplateChat or enableTemplateMode
SelectTemplate(templateId) ==
    /\ ops < MaxOps
    /\ ops' = ops + 1
    /\ selectedTemplate' = templateId
    /\ IF Len(Template(templateId).variables) > 0
       THEN /\ templateChatMode' = TRUE
            /\ currentVariableIndex' = 0
            /\ collectedVariables' = <<>>
            /\ container' = Append(container,
                   Msg("ai", "start", FALSE, <<>>, templateId, 0, 0))
            /\ timers' = Append(timers, [kind |-> "start", tmpl |-> templateId])
       ELSE UNCHANGED <<templateChatMode, currentVariableIndex, collectedVariables,
                        container, timers>>
    /\ UNCHANGED <<pageIsLoading, requests, submits, uncaught>>
    /\ UNCHANGED othersS

\* the oldest askNextVariable timer fires. startTemplateChat's timer passes the
\* template it captured; handleTemplateChatResponse's passes selectedTemplate as
\* it is now, and askNextVariable(null) throws on template.variables
AskNextVariable ==
    /\ timers # <<>>
    /\ timers' = Tail(timers)
    /\ LET template == IF Head(timers).kind = "start" THEN Head(timers).tmpl
                       ELSE selectedTemplate
       IN  IF template = 0
           THEN /\ uncaught' = uncaught + 1
                /\ UNCHANGED <<container, templateChatMode>>
           ELSE IF currentVariableIndex >= Len(Template(template).variables)
           THEN \* finishTemplateChat
                /\ templateChatMode' = FALSE
                /\ container' = Append(container,
                       Msg("ai", "summary", FALSE, <<>>, template, 0, 0))
                /\ UNCHANGED uncaught
           ELSE /\ container' = Append(container,
                       Msg("ai", "question", FALSE, <<>>, template,
                           currentVariableIndex, 0))
                /\ UNCHANGED <<templateChatMode, uncaught>>
    /\ UNCHANGED <<pageIsLoading, selectedTemplate, currentVariableIndex,
                   collectedVariables, requests, submits, ops>>
    /\ UNCHANGED othersS

\* clearSelectedTemplate() without `collectedVariables = {}`
ClearSelectedTemplateKeepingAnswers ==
    /\ ops < MaxOps
    /\ ops' = ops + 1
    /\ selectedTemplate' = 0
    /\ templateChatMode' = FALSE
    /\ currentVariableIndex' = 0
    /\ container' = Append(container, ClearedMsg)
    /\ UNCHANGED <<pageIsLoading, collectedVariables, timers, requests, submits,
                   uncaught>>
    /\ UNCHANGED othersS

\* clearSelectedTemplate()
ClearSelectedTemplate ==
    /\ ops < MaxOps
    /\ ops' = ops + 1
    /\ selectedTemplate' = 0
    /\ templateChatMode' = FALSE
    /\ currentVariableIndex' = 0
    /\ collectedVariables' = <<>>
    /\ container' = Append(container, ClearedMsg)
    /\ UNCHANGED <<pageIsLoading, timers, requests, submits, uncaught>>
    /\ UNCHANGED othersS

\* clearChat(): the container is replaced by one canned message
ClearChat ==
    /\ ops < MaxOps
    /\ ops' = ops + 1
    /\ container' = <<Msg("ai", "welcome", FALSE, <<>>, 0, 0, 0)>>
    /\ UNCHANGED <<pageIsLoading, selectedTemplate, templateChatMode,
                   currentVariableIndex, collectedVariables, timers, requests,
                   submits, uncaught>>
    /\ UNCHANGED othersS

UserMsg(message) == Msg("user", "user", FALSE, message, 0, 0, 0)

\* the demo-marked message the catch blocks add; status is 429 when the call
\* was answered with that status and 0 otherwise
ErrorMsg(status) == Msg("ai", "error", TRUE, <<>>, 0, 0, status)

\* handleTemplateChatResponse that takes the options of a select variable for
\* a closed list: an answer outside it is shown but not recorded
HandleTemplateChatResponseClosedList(message, shown) ==
    IF selectedTemplate = 0
    THEN /\ container' = shown
         /\ UNCHANGED <<currentVariableIndex, collectedVariables, timers, uncaught>>
    ELSE LET variables == Template(selectedTemplate).variables
         IN  IF currentVariableIndex >= Len(variables)
             THEN /\ container' = shown
                  /\ uncaught' = uncaught + 1
                  /\ UNCHANGED <<currentVariableIndex, collectedVariables, timers>>
             ELSE LET variable == variables[currentVariableIndex + 1]
                  IN  IF variable.type = "select" /\ message \notin variable.options
                      THEN /\ container' = shown
                           /\ UNCHANGED <<currentVariableIndex, collectedVariables,
                                          timers, uncaught>>
                      ELSE /\ collectedVariables' =
                                  Put(collectedVariables, variable.name, message)
                           /\ container' = Append(shown,
                                  Msg("ai", "ack", FALSE, message, selectedTemplate,
                                      currentVariableIndex, 0))
                           /\ currentVariableIndex' = currentVariableIndex + 1
                           /\ timers' = Append(timers, [kind |-> "next", tmpl |-> 0])
                           /\ UNCHANGED uncaught

\* handleTemplateChatResponse(message), called with templateChatMode true;
\* shown is the container with the user message already added
HandleTemplateChatResponse(message, shown) ==
    IF selectedTemplate = 0
    THEN /\ container' = shown
         /\ UNCHANGED <<currentVariableIndex, collectedVariables, timers, uncaught>>
    ELSE LET variables == Template(selectedTemplate).variables
         IN  IF currentVariableIndex >= Len(variables)
             THEN \* variable is undefined: variable.name throws
                  /\ container' = shown
                  /\ uncaught' = uncaught + 1
                  /\ UNCHANGED <<currentVariableIndex, collectedVariables, timers>>
             ELSE LET variable == variables[currentVariableIndex + 1]
                  IN  /\ collectedVariables' =
                             Put(collectedVariables, variable.name, message)
                      /\ container' = Append(shown,
                             Msg("ai", "ack", FALSE, message, selectedTemplate,
                                 currentVariableIndex, 0))
                      /\ currentVariableIndex' = currentVariableIndex + 1
                      /\ timers' = Append(timers, [kind |-> "next", tmpl |-> 0])
                      /\ UNCHANGED uncaught

\* a payload built before the interview's answers are read
TemplatePayloadWithoutAnswers(collected, message) ==
    [kind |-> "template", variables |-> <<>>, user_message |-> message]

\* the payload of sendTemplateMessage: {variables, user_message}
TemplatePayload(collected, message) ==
    [kind |-> "template", variables |-> collected, user_message |-> message]

\* sendMessage() of the template-aware script, up to its first await
PageSendMessage(raw) ==
    /\ submits.n < MaxPresses
    /\ submits' = [n |-> submits.n + 1, text |-> raw, busy |-> pageIsLoading]
    /\ LET message == Trim(raw)
           shown == Append(container, UserMsg(message))
       IN  IF message = <<>> \/ pageIsLoading
           THEN UNCHANGED <<container, pageIsLoading, currentVariableIndex,
                            collectedVariables, timers, requests, uncaught>>
           ELSE IF templateChatMode
           THEN /\ HandleTemplateChatResponse(message, shown)
                /\ UNCHANGED <<pageIsLoading, requests>>
           ELSE \* sendTemplateMessage or sendNormalMessage up to the fetch
                /\ container' = shown
                /\ pageIsLoading' = SetLoading(TRUE)
                \* tmpl is not sent: it records the template selected when
                \* the request was issued
                /\ requests' = Append(requests,
                       [tmpl |-> selectedTemplate] @@
                       (IF selectedTemplate # 0
                        THEN TemplatePayload(collectedVariables, message)
                        ELSE [kind |-> "normal", variables |-> <<>>,
                              user_message |-> message]))
                /\ UNCHANGED <<currentVariableIndex, collectedVariables, timers,
                               uncaught>>
    /\ UNCHANGED <<selectedTemplate, templateChatMode, ops>>
    /\ UNCHANGED othersS

\* callRealAI whose 429 branch leaves out addMessage's isDemo argument
NormalReplyUnmarked(outcome) ==
    CASE outcome = "ok"  -> Msg("ai", "answer", FALSE, ProviderContent, 0, 0, 0)
      [] outcome = "429" -> Msg("ai", "rate", FALSE, <<>>, 0, 0, 429)
      [] OTHER           -> ErrorMsg(0)

\* callRealAI and sendNormalMessage's catch: the message the outcome adds
NormalReply(outcome) ==
    CASE outcome = "ok"  -> Msg("ai", "answer", FALSE, ProviderContent, 0, 0, 0)
      [] outcome = "429" -> Msg("ai", "rate", TRUE, <<>>, 0, 0, 429)
      [] OTHER           -> ErrorMsg(0)

\* sendTemplateMessage's try and catch: the message the outcome adds. template
\* is selectedTemplate when the response is handled; reading its name throws
\* when it is null, and the catch takes over
TemplateReply(outcome, template) ==
    CASE outcome = "429" -> ErrorMsg(429)
      [] outcome \in {"ok", "ok_nocontent"} /\ template # 0 ->
             Msg("ai", "answer", FALSE,
                 IF outcome = "ok" THEN ProviderContent ELSE Undefined,
                 template, 0, 0)
      [] OTHER -> ErrorMsg(0)

\* the response of sendNormalMessage's request, through its finally
NormalResponse(outcome) ==
    /\ requests # <<>> /\ Head(requests).kind = "normal"
    /\ requests' = Tail(requests)
    /\ container' = Append(container, NormalReply(outcome))
    /\ pageIsLoading' = SetLoading(FALSE)
    /\ UNCHANGED <<selectedTemplate, templateChatMode, currentVariableIndex,
                   collectedVariables, timers, submits, ops, uncaught>>
    /\ UNCHANGED othersS

\* the response of sendTemplateMessage's request, through its finally, which
\* ends with clearSelectedTemplate()
TemplateResponse(outcome) ==
    /\ requests # <<>> /\ Head(requests).kind = "template"
    /\ requests' = Tail(requests)
    /\ container' = container \o <<TemplateReply(outcome, selectedTemplate), ClearedMsg>>
    /\ pageIsLoading' = SetLoading(FALSE)
    /\ selectedTemplate' = 0
    /\ templateChatMode' = FALSE
    /\ currentVariableIndex' = 0
    /\ collectedVariables' = <<>>
    /\ UNCHANGED <<timers, submits, ops, uncaught>>
    /\ UNCHANGED othersS

ScriptNext ==
    \/ \E templateId \in TemplateIds : SelectTemplate(templateId)
    \/ AskNextVariable
    \/ ClearSelectedTemplate
    \/ ClearChat
    \/ \E raw \in Inputs : PageSendMessage(raw)
    \/ \E outcome \in Outcomes : NormalResponse(outcome)
    \/ \E outcome \in Outcomes : TemplateResponse(outcome)

\* the script during template interviews: templates are selected, questions
\* asked, answers of every kind given and the template request answered
InterviewNext ==
    \/ \E templateId \in TemplateIds : SelectTemplate(templateId)
    \/ AskNextVariable
    \/ \E raw \in AnswerInputs : PageSendMessage(raw)
    \/ \E outcome \in Outcomes : TemplateResponse(outcome)

\* ======================================================== demo chat page

\* one entry of messages: {type, content, isDemo}
DemoMsg(type, isDemo, content) ==
    [type |-> type, isDemo |-> isDemo, content |-> content]

\* the canned text shown when a 2xx body has no content
CannedContent == <<"canned">>

\* Chat.sendMessage up to its first await
DemoSendMessage(inputMessage) ==
    /\ Len(demoMessages) < 2 * MaxPresses
    /\ ~(Trim(inputMessage) = <<>> \/ demoIsLoading)
    /\ demoMessages' = Append(demoMessages, DemoMsg("user", FALSE, inputMessage))
    /\ demoIsLoading' = TRUE
    /\ demoPending' = demoPending + 1
    /\ UNCHANGED othersD

\* the message the try or the catch of Chat.sendMessage adds for an outcome
DemoReply(outcome) ==
    CASE outcome = "ok"           -> DemoMsg("ai", FALSE, ProviderContent)
      [] outcome = "ok_nocontent" -> DemoMsg("ai", FALSE, CannedContent)
      [] OTHER                    -> DemoMsg("ai", TRUE, <<>>)

\* the rest of Chat.sendMessage once the fetch has settled
DemoResponse(outcome) ==
    /\ demoPending > 0
    /\ demoPending' = demoPending - 1
    /\ demoMessages' = Append(demoMessages, DemoReply(outcome))
    /\ demoIsLoading' = FALSE
    /\ UNCHANGED othersD

\* clearChat of the demo page
DemoClearChat ==
    /\ demoMessages' = <<DemoMsg("ai", FALSE, <<>>)>>
    /\ UNCHANGED <<demoIsLoading, demoPending>>
    /\ UNCHANGED othersD

DemoNext ==
    \/ \E inputMessage \in Inputs : DemoSendMessage(inputMessage)
    \/ \E outcome \in Outcomes : DemoResponse(outcome)
    \/ DemoClearChat

\* ========================================================= ChatInterface

\* sessions created in one run
MaxSessions == 2

\* currentSession === null
NoSession == [id |-> 0, messages |-> <<>>]

\* prev.map(session => session.id === updatedSession.id ? updatedSession : session)
ReplaceSession(prev, updatedSession) ==
    [i \in DOMAIN prev |->
        IF prev[i].id = updatedSession.id THEN updatedSession ELSE prev[i]]

\* AIChat is keyed by currentSession.id: when the id changes the mounted
\* instance is replaced, and the turns of the old one go on without it
Remounted(ts, oldId, newId) ==
    IF oldId = newId THEN ts ELSE [k \in DOMAIN ts |-> [ts[k] EXCEPT !.live = FALSE]]

\* createNewSession()
CreateNewSession ==
    /\ created < MaxSessions
    /\ created' = created + 1
    /\ LET newSession == [id |-> created + 1, messages |-> <<>>]
       IN  /\ sessions' = <<newSession>> \o sessions
           /\ currentSession' = newSession
           /\ turns' = Remounted(turns, currentSession.id, newSession.id)
    /\ UNCHANGED turnId
    /\ UNCHANGED othersC

\* selectSession(session), from the history list
SelectSession(i) ==
    /\ i \in DOMAIN sessions
    /\ sessions[i] # currentSession
    /\ currentSession' = sessions[i]
    /\ turns' = Remounted(turns, currentSession.id, sessions[i].id)
    /\ UNCHANGED <<sessions, created, turnId>>
    /\ UNCHANGED othersC

\* handleMessageSent / handleResponseReceived as created by a render whose
\* currentSession was session: the session they store
WithMessage(session, message) ==
    [session EXCEPT !.messages = Append(session.messages, message)]

\* AIChat.sendMessage of the mounted instance, up to its await: the user
\* message goes to onMessageSent of the current render. stream is
\* settings.stream of the instance. isLoading of the instance is true while a
\* turn of it awaits its request, and false again once a stream is open.
ChatSend(stream) ==
    /\ currentSession # NoSession
    /\ turnId < 2 * MaxTurns
    /\ \A k \in DOMAIN turns : turns[k].live => turns[k].open
    /\ LET userMessage == [id |-> turnId, role |-> "user"]
           updatedSession == WithMessage(currentSession, userMessage)
       IN  /\ currentSession' = updatedSession
           /\ sessions' = ReplaceSession(sessions, updatedSession)
    /\ turns' = Append(turns, [captured |-> currentSession, live |-> TRUE,
                               id |-> turnId + 1, stream |-> stream,
                               open |-> FALSE])
    /\ turnId' = turnId + 2
    /\ UNCHANGED created
    /\ UNCHANGED othersC

\* createStreamingCompletion of turn k resolved: the handlers are installed on
\* the event source, whether or not the instance is still mounted
ChatStreamOpened(k) ==
    /\ k \in DOMAIN turns
    /\ turns[k].stream /\ ~turns[k].open
    /\ turns' = [turns EXCEPT ![k].open = TRUE]
    /\ UNCHANGED <<sessions, currentSession, created, turnId>>
    /\ UNCHANGED othersC

\* turn k comes to its end. On success handleSingleResponse, or the handler of
\* the stream's completed event, calls the onResponseReceived its render was
\* given, mounted or not; on failure (sendMessage's catch, an error event,
\* onerror) neither callback is called.
ChatResponse(k, ok) ==
    /\ k \in DOMAIN turns
    /\ ok => (~turns[k].stream \/ turns[k].open)
    /\ LET rest == [j \in 1..(Len(turns) - 1) |->
                       IF j < k THEN turns[j] ELSE turns[j + 1]]
           assistantMessage == [id |-> turns[k].id, role |-> "assistant"]
           updatedSession == WithMessage(turns[k].captured, assistantMessage)
       IN  IF ok
           THEN /\ currentSession' = updatedSession
                /\ sessions' = ReplaceSession(sessions, updatedSession)
                /\ turns' = Remounted(rest, currentSession.id, updatedSession.id)
           ELSE /\ turns' = rest
                /\ UNCHANGED <<currentSession, sessions>>
    /\ UNCHANGED <<created, turnId>>
    /\ UNCHANGED othersC

ChatInterfaceNext ==
    \/ CreateNewSession
    \/ \E i \in 1..MaxSessions : SelectSession(i)
    \/ \E stream \in BOOLEAN : ChatSend(stream)
    \/ \E k \in 1..MaxTurns : ChatStreamOpened(k)
    \/ \E k \in 1..MaxTurns : \E ok \in BOOLEAN : ChatResponse(k, ok)

\* ===================================================== session chat page

\* one ChatMessage: {id, message_type, content}
ChatMessage(id, message_type, content) ==
    [id |-> id, message_type |-> message_type, content |-> content]

\* the histories GET /api/v1/chat/sessions/{id} may return: ids below 0 stand
\* for the ids the server gave earlier
Histories ==
    {<<>>, <<ChatMessage(-2, "user", <<"a">>), ChatMessage(-1, "assistant", <<"b">>)>>}

\* loadChatData's response arrived with response.ok: setMessages(chatHistory)
HistoryLoaded(chatHistory) ==
    /\ historyPending
    /\ historyPending' = FALSE
    /\ sessMessages' = chatHistory
    /\ UNCHANGED <<sessIsLoading, sessPending, sessToasts, sessNextId>>
    /\ UNCHANGED othersG

\* Chat.sendMessage up to its fetch
SessSendMessage(inputMessage) ==
    /\ sessNextId <= 2 * MaxPresses
    /\ ~(Trim(inputMessage) = <<>> \/ sessIsLoading)
    /\ sessIsLoading' = TRUE
    /\ sessMessages' = Append(sessMessages,
           ChatMessage(sessNextId, "user", Trim(inputMessage)))
    /\ sessPending' = <<[id |-> sessNextId, loading |-> historyPending]>>
    /\ sessNextId' = sessNextId + 1
    /\ UNCHANGED <<historyPending, sessToasts>>
    /\ UNCHANGED othersG

\* a failure handler that empties the transcript
AfterSendFailureEmptied(prev) == <<>>

\* setMessages(prev => prev.slice(0, -1))
AfterSendFailure(prev) == SubSeq(prev, 1, Len(prev) - 1)

\* the rest of Chat.sendMessage once the fetch has settled, through the finally
SessResponse(outcome) ==
    /\ sessPending # <<>>
    /\ sessPending' = <<>>
    /\ sessIsLoading' = FALSE
    /\ sessNextId' = sessNextId + 1
    /\ IF outcome \in {"ok", "ok_nocontent"}
       THEN /\ sessMessages' = Append(sessMessages,
                   ChatMessage(sessNextId, "assistant",
                       IF outcome = "ok" THEN ProviderContent ELSE Undefined))
            /\ UNCHANGED sessToasts
       ELSE \* a body that is not JSON, a non-OK status, a rejected fetch
            /\ sessMessages' = AfterSendFailure(sessMessages)
            /\ sessToasts' = sessToasts + 1
    /\ UNCHANGED historyPending
    /\ UNCHANGED othersG

SessionNext ==
    \/ \E chatHistory \in Histories : HistoryLoaded(chatHistory)
    \/ \E inputMessage \in Inputs : SessSendMessage(inputMessage)
    \/ \E outcome \in Outcomes : SessResponse(outcome)

\* ============================================================ ApiClient

\* calls of aiApi.createCompletion in one run
MaxApiCalls == 2
\* refresh requests one call may put on the wire
MaxRefresh == 2

\* the answers a request can get: an HTTP status, 0 for no response at all
Statuses == {200, 401, 403, 429, 500, 0}

\* useAuthProvider.login succeeded: both tokens are stored
Login ==
    /\ ~cookies.refresh
    /\ cookies' = [access |-> "login", refresh |-> TRUE]
    /\ redirected' = FALSE
    /\ UNCHANGED <<inflight, sent, refreshes, apiToasts, apiCalls, lastResponse,
                   result>>
    /\ UNCHANGED othersP

\* ApiClient.logout(): the three cookies are removed
LoggedOut == [access |-> "none", refresh |-> FALSE]

\* aiApi.createCompletion / createStreamingCompletion: the request goes out
CreateCompletion ==
    /\ apiCalls < MaxApiCalls
    /\ inflight = <<>>
    /\ apiCalls' = apiCalls + 1
    /\ inflight' = <<[kind |-> "completion", retry |-> FALSE]>>
    /\ sent' = 1
    /\ refreshes' = 0
    /\ apiToasts' = 0
    /\ result' = "pending"
    /\ UNCHANGED <<cookies, lastResponse, redirected>>
    /\ UNCHANGED othersP

\* an interceptor that does not mark the request it is about to retry
MarkRetriedForgotten(request) == request

\* originalRequest._retry = true
MarkRetried(request) == [request EXCEPT !.retry = TRUE]

\* the interceptor's toast for a status: 403, 429 and 5xx get one
Toasts(status) == IF status \in {403, 429} \/ status >= 500 THEN 1 ELSE 0

\* the innermost request is rejected. Every request before it was awaiting a
\* refresh inside its interceptor's try: its catch logs out, redirects to
\* /login and rejects in turn, down to the caller.
Rejected(toasts) ==
    /\ inflight' = <<>>
    /\ result' = "rejected"
    /\ apiToasts' = apiToasts + toasts
    /\ IF Len(inflight) > 1
       THEN cookies' = LoggedOut /\ redirected' = TRUE
       ELSE UNCHANGED <<cookies, redirected>>
    /\ UNCHANGED <<sent, refreshes>>

\* the response interceptor handles the answer to the innermost request
Respond(status) ==
    /\ inflight # <<>>
    /\ LET n == Len(inflight)
           request == inflight[n]
       IN  /\ lastResponse' = [kind |-> request.kind, status |-> status]
           /\ IF status = 200
              THEN IF n = 1
                   THEN \* the caller gets response.data
                        /\ inflight' = <<>>
                        /\ result' = "resolved"
                        /\ UNCHANGED <<cookies, sent, refreshes, apiToasts, redirected>>
                   ELSE \* the refresh succeeded: the token is stored and the
                        \* request that waited for it is sent again
                        /\ cookies' = [cookies EXCEPT !.access = "refreshed"]
                        /\ inflight' = SubSeq(inflight, 1, n - 1)
                        /\ IF inflight[n - 1].kind = "completion"
                           THEN sent' = sent + 1 /\ UNCHANGED refreshes
                           ELSE refreshes' = refreshes + 1 /\ UNCHANGED sent
                        /\ UNCHANGED <<apiToasts, result, redirected>>
              ELSE IF status = 401 /\ ~request.retry
              THEN IF cookies.refresh
                   THEN \* POST /api/v1/auth/refresh through the same client
                        /\ refreshes < MaxRefresh
                        /\ inflight' = Append([inflight EXCEPT ![n] = MarkRetried(request)],
                                              [kind |-> "refresh", retry |-> FALSE])
                        /\ refreshes' = refreshes + 1
                        /\ UNCHANGED <<cookies, sent, apiToasts, result, redirected>>
                   ELSE Rejected(0)
              ELSE Rejected(Toasts(status))
    /\ UNCHANGED apiCalls
    /\ UNCHANGED othersP

ApiNext ==
    \/ Login
    \/ CreateCompletion
    \/ \E status \in Statuses : Respond(status)

\* ============================================================== useChat

\* sendMessage calls in one run
MaxSends == 3
\* loadChat calls in one run
MaxLoads == 2

\* what chatApi.sendMessage can come to: the stored user message with an AI
\* response, the stored user message alone, and a rejection
SendOutcomes == {"ok", "ok_noai", "fail"}

HookMsg(role, n, content) == [role |-> role, n |-> n, content |-> content]

\* response.message and response.ai_response of call n
Stored(call, outcome) ==
    IF outcome = "ok"
    THEN <<HookMsg("user", call.n, call.content),
           HookMsg("assistant", call.n, Answer)>>
    ELSE <<HookMsg("user", call.n, call.content)>>

\* the pending calls without the k-th
Without(pending, k) ==
    [i \in 1..(Len(pending) - 1) |-> IF i < k THEN pending[i] ELSE pending[i + 1]]

\* loadChat(id) up to its await
HookLoadChat ==
    /\ hookLoads.started < MaxLoads
    /\ hookLoads' = [started |-> hookLoads.started + 1,
                     pending |-> hookLoads.pending + 1]
    /\ hookLoading' = TRUE
    /\ hookError' = Null
    /\ UNCHANGED <<hookMessages, hookSending, hookChatId, hookChats, hookCalls,
                   hookResults, hookToasts, serverMessages>>
    /\ UNCHANGED othersH

\* chatApi.getChat settles: loadChat after its await, through its finally
HookLoadChatResponse(ok) ==
    /\ hookLoads.pending > 0
    /\ hookLoads' = [hookLoads EXCEPT !.pending = @ - 1]
    /\ IF ok
       THEN /\ hookMessages' = serverMessages
            /\ hookChatId' = 1
            /\ UNCHANGED <<hookError, hookToasts>>
       ELSE /\ hookError' = "load"
            /\ hookToasts' = hookToasts + 1
            /\ UNCHANGED <<hookMessages, hookChatId>>
    /\ hookLoading' = FALSE
    /\ UNCHANGED <<hookSending, hookChats, hookCalls, hookResults, serverMessages>>
    /\ UNCHANGED othersH

\* updatedMessages: [...messages, response.message] and the AI response, where
\* messages is the state of the render whose sendMessage was called
UpdatedMessages(call, outcome) == call.captured \o Stored(call, outcome)

\* sendMessage(content) up to its await
HookSendMessage(raw) ==
    /\ Len(hookResults) < MaxSends
    /\ IF hookChatId = 0 \/ Trim(raw) = <<>>
       THEN /\ hookResults' = Append(hookResults, "ignored")
            /\ UNCHANGED <<hookSending, hookError, hookCalls>>
       ELSE /\ hookResults' = Append(hookResults, "pending")
            /\ hookSending' = TRUE
            /\ hookError' = Null
            /\ hookCalls' = Append(hookCalls,
                   [n |-> Len(hookResults) + 1, content |-> Trim(raw),
                    captured |-> hookMessages, stage |-> "post"])
    /\ UNCHANGED <<hookMessages, hookLoading, hookChatId, hookChats, hookLoads,
                   hookToasts, serverMessages>>
    /\ UNCHANGED othersH

\* chatApi.sendMessage of call k settles: sendMessage from its first await to
\* its second (fetchChats up to its await), or through catch and finally
HookSendResponse(k, outcome) ==
    /\ k \in DOMAIN hookCalls
    /\ hookCalls[k].stage = "post"
    /\ hookResults' = [hookResults EXCEPT ![hookCalls[k].n] = outcome]
    /\ IF outcome = "fail"
       THEN /\ hookError' = "send"
            /\ hookToasts' = hookToasts + 1
            /\ hookSending' = FALSE
            /\ hookCalls' = Without(hookCalls, k)
            /\ UNCHANGED <<hookMessages, hookLoading, serverMessages>>
       ELSE /\ serverMessages' = serverMessages \o Stored(hookCalls[k], outcome)
            /\ hookMessages' = UpdatedMessages(hookCalls[k], outcome)
            /\ hookLoading' = TRUE
            /\ hookError' = Null
            /\ hookCalls' = [hookCalls EXCEPT ![k].stage = "chats"]
            /\ UNCHANGED <<hookSending, hookToasts>>
    /\ UNCHANGED <<hookChatId, hookChats, hookLoads>>
    /\ UNCHANGED othersH

\* chatApi.getChats of call k's fetchChats settles: fetchChats through its
\* finally, then sendMessage's finally
HookChatsResponse(k, ok) ==
    /\ k \in DOMAIN hookCalls
    /\ hookCalls[k].stage = "chats"
    /\ IF ok
       THEN /\ hookChats' = TRUE
            /\ UNCHANGED <<hookError, hookToasts>>
       ELSE /\ hookError' = "chats"
            /\ hookToasts' = hookToasts + 1
            /\ UNCHANGED hookChats
    /\ hookLoading' = FALSE
    /\ hookSending' = FALSE
    /\ hookCalls' = Without(hookCalls, k)
    /\ UNCHANGED <<hookMessages, hookChatId, hookLoads, hookResults,
                   serverMessages>>
    /\ UNCHANGED othersH

UseChatNext ==
    \/ HookLoadChat
    \/ \E ok \in BOOLEAN : HookLoadChatResponse(ok)
    \/ \E raw \in Inputs : HookSendMessage(raw)
    \/ \E k \in 1..MaxSends, outcome \in SendOutcomes : HookSendResponse(k, outcome)
    \/ \E k \in 1..MaxSends, ok \in BOOLEAN : HookChatsResponse(k, ok)

\* =========================================================== specifications

vars == <<aVars, sVars, dVars, pVars, gVars, cVars, hVars>>

\* the component as mounted and the page script as loaded
Init ==
    /\ messages = <<>>
    /\ isLoading = FALSE
    /\ error = Null
    /\ settings = [stream |-> TRUE]
    /\ calls = <<>>
    /\ sources = <<>>
    /\ nextId = 1
    /\ container = <<Msg("ai", "welcome", FALSE, <<>>, 0, 0, 0)>>
    /\ pageIsLoading = FALSE
    /\ selectedTemplate = 0
    /\ templateChatMode = FALSE
    /\ currentVariableIndex = 0
    /\ collectedVariables = <<>>
    /\ timers = <<>>
    /\ requests = <<>>
    /\ submits = [n |-> 0, text |-> <<>>, busy |-> FALSE]
    /\ ops = 0
    /\ uncaught = 0
    /\ demoMessages = <<DemoMsg("ai", FALSE, <<>>)>>
    /\ demoIsLoading = FALSE
    /\ demoPending = 0
    /\ cookies = [access |-> "login", refresh |-> TRUE]
    /\ inflight = <<>>
    /\ sent = 0
    /\ refreshes = 0
    /\ apiToasts = 0
    /\ apiCalls = 0
    /\ lastResponse = [kind |-> "none", status |-> 0]
    /\ result = "none"
    /\ redirected = FALSE
    /\ sessMessages = <<>>
    /\ sessIsLoading = FALSE
    /\ sessPending = <<>>
    /\ historyPending = TRUE
    /\ sessToasts = 0
    /\ sessNextId = 1
    /\ sessions = <<>>
    /\ currentSession = NoSession
    /\ turns = <<>>
    /\ created = 0
    /\ turnId = 1
    /\ hookMessages = <<>>
    /\ hookSending = FALSE
    /\ hookLoading = FALSE
    /\ hookError = Null
    /\ hookChatId = 0
    /\ hookChats = FALSE
    /\ hookCalls = <<>>
    /\ hookLoads = [started |-> 0, pending |-> 0]
    /\ hookResults = <<>>
    /\ hookToasts = 0
    /\ serverMessages = <<>>

\* the AIChat component on its own: the page script stays as loaded
SpecAIChat == Init /\ [][AIChatNext]_vars

\* the chat page script on its own: the component stays as mounted
SpecScript == Init /\ [][ScriptNext]_vars

\* the chat page script during template interviews, with a wider choice of answers
SpecInterview == Init /\ [][InterviewNext]_vars

\* the demo chat page on its own
SpecDemoPage == Init /\ [][DemoNext]_vars

\* the session chat page on its own, mounted with loadChatData's GET in flight
SpecSessionPage == Init /\ [][SessionNext]_vars

\* ChatInterface with the AIChat instances it mounts
SpecChatInterface == Init /\ [][ChatInterfaceNext]_vars

\* ApiClient on its own
SpecApi == Init /\ [][ApiNext]_vars

\* the useChat hook on its own
SpecUseChat == Init /\ [][UseChatNext]_vars

\* ================================================== claims about AIChat

\* the event source created for the assistant message id, if any
SourceOf(id) == {i \in DOMAIN sources : sources[i].id = id}

Streaming == {k \in DOMAIN messages : messages[k].isStreaming}

\* C1: isLoading is true for as long as a turn is unresolved: while sendMessage
\* awaits its request and while any assistant message is still streaming, so no
\* new turn is accepted in that time.
C1_LoadingUntilTurnResolves ==
    \/ isLoading
    \/ /\ calls = <<>>
       /\ \A k \in Streaming : \A i \in SourceOf(messages[k].id) : ~sources[i].open

\* C2: no assistant message is left unfinished: a message that still has
\* isStreaming = TRUE has its request pending or its event source open.
C2_NoAbandonedPlaceholder ==
    \A k \in Streaming :
        \/ \E c \in DOMAIN calls : calls[c].id = messages[k].id
        \/ \E i \in SourceOf(messages[k].id) : sources[i].open

\* C7: the content of a streaming assistant message only ever grows by
\* prefix-extension, and when the message is made final after at least one
\* content event its content is that of the last content event.
C7_StreamContentGrows ==
    [][\A k \in Streaming :
          /\ k \in DOMAIN messages'
          /\ IsPrefix(messages[k].content, messages'[k].content)
          /\ \A i \in SourceOf(messages[k].id) :
                (sources[i].deltas > 0 /\ ~messages'[k].isStreaming)
                    => messages'[k].content = messages[k].content]_vars

\* two content events and then the completed event have been handled
C7_Witness ==
    \E k \in DOMAIN messages : \E i \in SourceOf(messages[k].id) :
        /\ sources[i].deltas = 2
        /\ sources[i].phase = "completed"
        /\ ~messages[k].isStreaming
        /\ messages[k].tokens_used > 0
        /\ Len(messages[k].content) = 2

\* C8: a final message (isStreaming false) is never changed again, and the only
\* change made to an existing message is to one that is still streaming.
C8_FinalMessageFrozen ==
    [][\A k \in DOMAIN messages :
          /\ k \in DOMAIN messages'
          /\ messages'[k].id = messages[k].id
          /\ messages'[k].role = messages[k].role
          /\ (~messages[k].isStreaming => messages'[k] = messages[k])]_vars

\* a message made final by the completed event has since seen [DONE] or a
\* transport error
C8_Witness ==
    \E k \in DOMAIN messages : \E i \in SourceOf(messages[k].id) :
        /\ messages[k].tokens_used > 0
        /\ ~messages[k].isStreaming
        /\ messages[k].content # <<>>
        /\ ~sources[i].open

\* C9: a stream failure (an event of type 'error' or an unparsable chunk) shows
\* the user an error and leaves the turn resolved: isLoading false and the
\* assistant message of that stream final.
C9_StreamFailureSurfaced ==
    [][\A i \in DOMAIN sources :
          (/\ i \in DOMAIN sources'
           /\ \/ sources[i].phase # "error" /\ sources'[i].phase = "error"
              \/ ~sources[i].malformed /\ sources'[i].malformed)
          => /\ error' # Null
             /\ ~isLoading'
             /\ \A k \in DOMAIN messages' :
                   messages'[k].id = sources[i].id => ~messages'[k].isStreaming]_vars

\* ========================================= claims about the chat page script

\* the variables of the selected template
SelectedVariables == Template(selectedTemplate).variables

QuestionMsg(templateId, index) ==
    Msg("ai", "question", FALSE, <<>>, templateId, index, 0)

\* the interview waits for the answer to a required variable whose question
\* is on the page
RequiredQuestionPending ==
    /\ templateChatMode /\ selectedTemplate # 0 /\ ~pageIsLoading
    /\ currentVariableIndex < Len(SelectedVariables)
    /\ SelectedVariables[currentVariableIndex + 1].required
    /\ \E k \in DOMAIN container :
          container[k] = QuestionMsg(selectedTemplate, currentVariableIndex)

\* C3: when the pending question is for a required variable and the submitted
\* text is empty after trimming, the cursor and the collected variables stay
\* as they are and the same question is emitted again.
C3_EmptyRequiredAnswerReprompts ==
    [][(/\ submits'.n = submits.n + 1
        /\ Trim(submits'.text) = <<>>
        /\ RequiredQuestionPending)
       => /\ currentVariableIndex' = currentVariableIndex
          /\ collectedVariables' = collectedVariables
          /\ container' = Append(container,
                 QuestionMsg(selectedTemplate, currentVariableIndex))]_vars

\* C4: at most one provider call is outstanding, and a sendMessage made while
\* one is outstanding adds no message and issues no request.
C4_OneCallOutstanding ==
    [][/\ Len(requests') <= 1
       /\ (requests # <<>> /\ submits'.n = submits.n + 1)
              => container' = container /\ requests' = requests]_vars

\* a non-empty message was submitted while a request was outstanding
C4_Witness ==
    /\ requests # <<>>
    /\ submits.busy
    /\ Trim(submits.text) # <<>>

FromProvider(m) == m.kind \in {"answer", "rate", "error"}

\* C5: a message added for a provider call carries the demo marker exactly
\* when it does not carry the content of a successful answer.
C5_DemoMarkerIffFailure ==
    \A k \in DOMAIN container :
        FromProvider(container[k]) =>
            (container[k].isDemo <=>
                ~(container[k].kind = "answer" /\ container[k].text = ProviderContent))

\* the messages a step added to the page
Added == SubSeq(container', Len(container) + 1, Len(container'))

\* C6: the step that handles a 429 response adds a demo-marked assistant
\* message and leaves isLoading false with no request outstanding; and a
\* non-empty message submitted while isLoading is false is accepted: it is
\* shown as a user message and either answers the interview or issues a request.
C6_RateLimitNotWedged ==
    [][/\ (/\ requests # <<>> /\ requests' = Tail(requests)
           /\ Len(container') > Len(container)
           /\ Added[1].status = 429)
          => /\ Added[1].type = "ai" /\ Added[1].isDemo
             /\ ~pageIsLoading'
             /\ requests' = <<>>
       /\ (/\ submits'.n = submits.n + 1
           /\ Trim(submits'.text) # <<>>
           /\ ~pageIsLoading)
          => /\ Len(container') > Len(container)
             /\ Added[1] = UserMsg(Trim(submits'.text))
             /\ \/ templateChatMode
                \/ pageIsLoading' /\ requests' # <<>>]_vars

\* a 429 was answered with a demo message, and the next turn got its answer
C6_Witness ==
    \E k \in DOMAIN container :
        /\ k + 2 <= Len(container)
        /\ container[k].status = 429 /\ container[k].isDemo
        /\ container[k + 1].type = "user"
        /\ container[k + 2].kind = "answer"
        /\ ~pageIsLoading

\* the index of the last interview start on the page, 0 if there is none
LastStart ==
    IF \E k \in DOMAIN container : container[k].kind = "start"
    THEN CHOOSE k \in DOMAIN container :
            /\ container[k].kind = "start"
            /\ \A j \in DOMAIN container : container[j].kind = "start" => j <= k
    ELSE 0

\* the variable indexes of the questions emitted since the last start
QuestionsAsked ==
    LET since == SubSeq(container, LastStart + 1, Len(container))
        qs == SelectSeq(since, LAMBDA m : m.kind = "question")
    IN  [j \in DOMAIN qs |-> qs[j].var]

\* C10: the questions of an interview are emitted in template order, one per
\* variable; and when the interview has just completed, every variable has had
\* its question, the cursor is at variables.length, and collectedVariables
\* holds one entry per variable in interview order.
C10_InterviewInOrder ==
    LastStart # 0 =>
        /\ \A j \in DOMAIN QuestionsAsked : QuestionsAsked[j] = j - 1
        /\ container[Len(container)].kind = "summary" =>
              LET variables == Template(container[Len(container)].tmpl).variables
              IN  /\ Len(QuestionsAsked) = Len(variables)
                  /\ currentVariableIndex = Len(variables)
                  /\ ~templateChatMode
                  /\ [j \in DOMAIN collectedVariables |-> collectedVariables[j][1]]
                        = [j \in DOMAIN variables |-> variables[j].name]

\* ================================= claims about the routing of user input

\* the step is a call of sendMessage that got past its guard
Accepted ==
    /\ submits'.n = submits.n + 1
    /\ Trim(submits'.text) # <<>>
    /\ ~submits'.busy

\* C11: while the interview is active every accepted input is consumed as the
\* current variable's answer (stored under its name, the cursor advanced) and
\* sends no request; with no interview active every accepted input sends
\* exactly one request.
C11_InputRouting ==
    [][Accepted =>
          IF templateChatMode
          THEN /\ requests' = requests
               /\ selectedTemplate # 0
               /\ currentVariableIndex < Len(SelectedVariables)
               /\ currentVariableIndex' = currentVariableIndex + 1
               /\ collectedVariables' =
                      Put(collectedVariables,
                          SelectedVariables[currentVariableIndex + 1].name,
                          Trim(submits'.text))
          ELSE /\ Len(requests') = Len(requests) + 1
               /\ UNCHANGED <<currentVariableIndex, collectedVariables>>]_vars

\* the step records the answer to the template's last variable
CompletingAnswer ==
    /\ Accepted
    /\ templateChatMode
    /\ selectedTemplate # 0
    /\ currentVariableIndex + 1 = Len(SelectedVariables)
    /\ currentVariableIndex' = Len(SelectedVariables)

ValidTemplate(templateId) ==
    LET t == Template(templateId)
        names == {t.variables[i].name : i \in DOMAIN t.variables}
    IN  /\ t.placeholders \subseteq names
        /\ Cardinality(names) = Len(t.variables)

\* the template has no variables
NoVariables(templateId) ==
    templateId # 0 /\ Len(Template(templateId).variables) = 0

\* C13: once a valid template without variables is selected the engine is Complete
\* at once (no interview mode, no question emitted), and an accepted input
\* sends the template's completion request instead of being taken as an answer.
C13_ZeroVariableTemplate ==
    [][/\ (NoVariables(selectedTemplate') /\ ValidTemplate(selectedTemplate')) =>
              /\ ~templateChatMode'
              /\ \A k \in DOMAIN Added : Added[k].kind # "question"
       /\ (NoVariables(selectedTemplate) /\ ValidTemplate(selectedTemplate)
           /\ Accepted) =>
              /\ Len(requests') = Len(requests) + 1
              /\ requests'[Len(requests')].kind = "template"
              /\ UNCHANGED <<currentVariableIndex, collectedVariables>>]_vars

\* the step selects a template while another one is selected
SwitchesTemplate ==
    /\ selectedTemplate # 0
    /\ selectedTemplate' # 0
    /\ selectedTemplate' # selectedTemplate

\* C14: selecting a template while another template is selected or being
\* interviewed discards the previous cursor and collectedVariables, whether or
\* not the new template has variables.
C14_SwitchResetsInterview ==
    [][SwitchesTemplate =>
          /\ currentVariableIndex' = 0
          /\ collectedVariables' = <<>>]_vars

\* the step ends with clearSelectedTemplate(): its message is the last one added
Cleared == Added # <<>> /\ Added[Len(Added)] = ClearedMsg

\* C15: clearSelectedTemplate always leaves the engine Inactive (no template,
\* no interview mode, cursor 0, nothing collected); the messages already shown
\* stay as they are and a request already sent stays in flight.
C15_ClearLeavesInactive ==
    [][Cleared =>
          /\ selectedTemplate' = 0
          /\ ~templateChatMode'
          /\ currentVariableIndex' = 0
          /\ collectedVariables' = <<>>
          /\ SubSeq(container', 1, Len(container)) = container
          /\ (ops' # ops => requests' = requests)]_vars

\* a template was cleared by hand in mid-interview while a request was in flight
C15_Witness ==
    /\ container[Len(container)] = ClearedMsg
    /\ requests # <<>>
    /\ selectedTemplate = 0
    /\ \E k \in DOMAIN container : container[k].kind = "ack"

\* C16: starting a template with an unmatched placeholder or a repeated
\* variable name fails and leaves the engine Inactive, so the selected template
\* is always a valid one.
C16_InvalidTemplateRejected ==
    selectedTemplate # 0 => ValidTemplate(selectedTemplate)

\* ============================================== claims about ApiClient

\* C17 as stated: a completion request goes on the wire at most once per call.
C17_SentAtMostOnce == sent <= 1

\* C17 as amended: a completion request goes on the wire at most twice per
\* call, and the second time only when the first was answered 401 and the
\* refresh the interceptor then posted succeeded; after any other failure (429,
\* 5xx, 403, no response, a second 401, a failed refresh) it is not sent again.
C17_ResentOnlyAfterRefresh ==
    [][/\ sent' <= 2
       /\ (sent' > sent /\ sent >= 1) =>
              /\ lastResponse' = [kind |-> "refresh", status |-> 200]
              /\ inflight' = <<[kind |-> "completion", retry |-> TRUE]>>
              /\ cookies'.access = "refreshed"]_vars

\* a call whose request was sent again after a refresh has resolved
C17_Witness == sent = 2 /\ refreshes = 1 /\ result = "resolved"

\* ====================================== claims about the session chat page

MessagesOf(list, id) ==
    (CHOOSE session \in {list[i] : i \in DOMAIN list} : session.id = id).messages

\* after is before, or before followed by one more message
SameOrOneMore(before, after) ==
    \/ after = before
    \/ Len(after) = Len(before) + 1 /\ IsPrefix(before, after)

\* C19: handleMessageSent and handleResponseReceived each add their message
\* after the messages the session already has, in the session list and in
\* currentSession alike, so a turn leaves the earlier messages followed by the
\* user message and then the assistant message.
C19_TurnAppendsInOrder ==
    [][/\ \A i \in DOMAIN sessions :
              SameOrOneMore(sessions[i].messages,
                            MessagesOf(sessions', sessions[i].id))
       /\ currentSession'.id = currentSession.id =>
              SameOrOneMore(currentSession.messages, currentSession'.messages)]_vars

\* the step settles the request of turn k
Answered(k) == \A j \in DOMAIN turns' : turns'[j].id # turns[k].id

\* C20: when the response of a turn sent in session A arrives while another
\* session is current, only A's messages change, by the assistant message
\* being appended; the other sessions and the choice of current session stay.
C20_LateResponseStaysInItsSession ==
    [][\A k \in DOMAIN turns :
          (Answered(k) /\ turns[k].captured.id # currentSession.id) =>
              /\ currentSession' = currentSession
              /\ \A i \in DOMAIN sessions :
                    IF sessions[i].id = turns[k].captured.id
                    THEN SameOrOneMore(sessions[i].messages, sessions'[i].messages)
                    ELSE sessions'[i] = sessions[i]]_vars

\* C21: once the AIChat instance of a streamed turn is unmounted, the end of
\* that stream reaches nobody: onResponseReceived is not called, so the
\* session list and the current session stay as they are.
C21_AbandonedStreamIsSilent ==
    [][\A k \in DOMAIN turns :
          (turns[k].stream /\ ~turns[k].live /\ Answered(k)) =>
              UNCHANGED <<sessions, currentSession>>]_vars

\* ============================================ claims about the answers

\* the interview waits for the answer to a select variable that lists options
SelectPending ==
    /\ templateChatMode
    /\ selectedTemplate # 0
    /\ currentVariableIndex < Len(SelectedVariables)
    /\ SelectedVariables[currentVariableIndex + 1].type = "select"
    /\ SelectedVariables[currentVariableIndex + 1].options # {}

\* C22: an accepted answer to a select variable is recorded under the
\* variable's name, acknowledged, and advances the cursor, whether or not it is
\* one of the options.
C22_SelectAcceptsFreeText ==
    [][(Accepted /\ SelectPending) =>
          /\ collectedVariables' =
                 Put(collectedVariables,
                     SelectedVariables[currentVariableIndex + 1].name,
                     Trim(submits'.text))
          /\ currentVariableIndex' = currentVariableIndex + 1
          /\ Added # <<>>
          /\ Added[Len(Added)].kind = "ack"
          /\ Added[Len(Added)].text = Trim(submits'.text)]_vars

\* an answer that is none of tone's options has been recorded for tone
C22_Witness ==
    /\ selectedTemplate = 1
    /\ currentVariableIndex = 2
    /\ \E i \in DOMAIN collectedVariables :
          /\ collectedVariables[i][1] = "tone"
          /\ collectedVariables[i][2] \notin Template(1).variables[2].options

\* the response of a template request is handled in this step
TemplateAnswered ==
    /\ requests # <<>>
    /\ Head(requests).kind = "template"
    /\ requests' = Tail(requests)

\* C23: the answer message of a template completion carries the template
\* under which its request was issued, also when the selection changed while
\* the request was in flight.
C23_ReplyNamesIssuingTemplate ==
    [][(TemplateAnswered /\ Added # <<>> /\ Added[1].kind = "answer")
          => Added[1].tmpl = Head(requests).tmpl]_vars

\* ============================================ claims about the rendering

\* a prompt is a sequence of literal texts and {name} placeholders
Lit(text) == [slot |-> FALSE, name |-> "", text |-> text]

Slot(name) == [slot |-> TRUE, name |-> name, text |-> <<>>]

\* template.system_prompt of the three templates; its placeholders are the
\* template's placeholders field
SystemPrompt(templateId) ==
    CASE templateId = 1 ->
             <<Lit(<<"Write to ">>), Slot("recipient"), Lit(<<" in a ">>),
               Slot("tone"), Lit(<<" voice">>)>>
      [] templateId = 2 -> <<Lit(<<"Summarise">>)>>
      [] OTHER -> <<Lit(<<"Report on ">>), Slot("topic")>>

\* no prompt, or a rendering that failed with MissingVariable
NoPrompt == [ok |-> FALSE, text |-> <<>>]

\* the value rendering gives a variable: the collected one, else its default
RenderValue(variable, collected) ==
    IF \E i \in DOMAIN collected : collected[i][1] = variable.name
    THEN [found |-> TRUE,
          text |-> collected[CHOOSE i \in DOMAIN collected :
                                 collected[i][1] = variable.name][2]]
    ELSE IF variable.default # Null
    THEN [found |-> TRUE, text |-> <<variable.default>>]
    ELSE [found |-> FALSE, text |-> <<>>]

\* every {name} of the prompt replaced by the value of the variable name
Substitute(prompt, variable, collected) ==
    LET value == RenderValue(variable, collected)
    IN  [i \in DOMAIN prompt |->
            IF prompt[i].slot /\ prompt[i].name = variable.name /\ value.found
            THEN Lit(value.text)
            ELSE prompt[i]]

RECURSIVE SubstituteAll(_, _, _, _)
SubstituteAll(prompt, variables, collected, n) ==
    IF n = 0
    THEN prompt
    ELSE Substitute(SubstituteAll(prompt, variables, collected, n - 1),
                    variables[n], collected)

\* render(template, collectedVariables): the variables substituted in template
\* order; MissingVariable when a placeholder remains
Render(templateId, collected) ==
    LET variables == Template(templateId).variables
        text == SubstituteAll(SystemPrompt(templateId), variables, collected,
                              Len(variables))
    IN  IF \E i \in DOMAIN text : text[i].slot
        THEN NoPrompt
        ELSE [ok |-> TRUE, text |-> text]

\* the prompt the receiver of a request can render: it needs the template_id
\* beside the variables
PromptOf(request) ==
    IF "template_id" \in DOMAIN request
    THEN Render(request.template_id, request.variables)
    ELSE NoPrompt

\* C24: the prompt of a template completion is the system prompt of the
\* template the request was issued under, each placeholder replaced by the
\* collected value or, when the key is absent, by the variable's default.
C24_RequestRendersCollectedValues ==
    \A i \in DOMAIN requests :
        requests[i].kind = "template"
            => PromptOf(requests[i]) =
                   Render(requests[i].tmpl, requests[i].variables)

\* ===================================== claims about the interview's timers

\* C25: whenever templateChatMode is true a template is selected and the
\* cursor is less than the number of its variables, the delay between the
\* last answer and finishTemplateChat included.
C25_CursorInRangeWhileActive ==
    templateChatMode =>
        /\ selectedTemplate # 0
        /\ currentVariableIndex < Len(SelectedVariables)

\* the oldest askNextVariable timer fires in this step
TimerFires ==
    /\ timers # <<>>
    /\ timers' = Tail(timers)

\* the oldest timer belongs to an interview since cleared or replaced: no
\* template is selected any more, or startTemplateChat captured another one
\* than the one selected now
StaleTimer ==
    /\ timers # <<>>
    /\ \/ selectedTemplate = 0
       \/ /\ Head(timers).kind = "start"
          /\ Head(timers).tmpl # selectedTemplate

\* C26: a timer of an interview since cleared or replaced has no effect when
\* it fires: it emits nothing, leaves templateChatMode alone and throws
\* nothing.
C26_StaleTimerHasNoEffect ==
    [][(TimerFires /\ StaleTimer) =>
          /\ container' = container
          /\ templateChatMode' = templateChatMode
          /\ uncaught' = uncaught]_vars

\* the question container[k] asks for the variable under the cursor, in the
\* interview going on
AsksCurrentVariable(k) ==
    /\ k > LastStart
    /\ container[k].kind = "question"
    /\ container[k].tmpl = selectedTemplate
    /\ container[k].var = currentVariableIndex

\* C27: an input is recorded as the answer for the variable under the cursor
\* only after the question for that variable has been emitted in the
\* interview going on.
C27_AnswerOnlyAfterQuestion ==
    [][(Accepted /\ collectedVariables' # collectedVariables)
          => \E k \in DOMAIN container : AsksCurrentVariable(k)]_vars

\* C28: the cleanup after a template request's response leaves alone a
\* template selected while the request was in flight: the selection, its
\* interview, its cursor and its collectedVariables stay as they are.
C28_CleanupSparesLaterSelection ==
    [][(TemplateAnswered /\ selectedTemplate # Head(requests).tmpl)
          => UNCHANGED <<selectedTemplate, templateChatMode,
                         currentVariableIndex, collectedVariables>>]_vars

\* ================================== claims about the interceptor's refresh

\* the refresh request the interceptor posted is answered 401 in this step
RefreshDenied ==
    /\ inflight # <<>>
    /\ inflight[Len(inflight)].kind = "refresh"
    /\ inflight' # inflight
    /\ lastResponse' = [kind |-> "refresh", status |-> 401]

\* C30: for one call the interceptor posts at most one refresh and sends the
\* original request at most once more; when the refresh itself is answered
\* 401 the call settles as rejected and the stored tokens are removed.
C30_OneRefreshOneRetry ==
    [][/\ refreshes' <= 1
       /\ sent' <= 2
       /\ RefreshDenied =>
              /\ inflight' = <<>>
              /\ result' = "rejected"
              /\ cookies' = LoggedOut]_vars

\* ================================================= claims about useChat

\* the sendMessage calls whose POST came back with an AI response
Succeeded == {n \in DOMAIN hookResults : hookResults[n] = "ok"}

\* messages holds call n's user message and, after it, its AI response
HoldsTurn(n) ==
    \E i, j \in DOMAIN hookMessages :
        /\ i < j
        /\ hookMessages[i].role = "user" /\ hookMessages[i].n = n
        /\ hookMessages[j].role = "assistant" /\ hookMessages[j].n = n

\* C29: once no sendMessage call is awaiting anything, messages holds the
\* user message and the AI response of every call that succeeded, each
\* response after its own user message; overlapping calls lose nothing.
C29_OverlappingSendsKeepAll ==
    (hookCalls = <<>> /\ hookLoads.pending = 0)
        => \A n \in Succeeded : HoldsTurn(n)

\* ========================================== claims about the demo chat page

\* the demo page's side of C5: an assistant message carries isDemo exactly when
\* it does not carry the content of a successful answer
DemoPageMarkerIffFailure ==
    \A k \in DOMAIN demoMessages :
        (demoMessages[k].type = "ai" /\ k > 1) =>
            (demoMessages[k].isDemo <=> demoMessages[k].content # ProviderContent)

====
